---- MODULE Spec2Model ----
(***************************************************************************)
(* A model of performance_calculator: the Fetcher                         *)
(* (generate_github_builds_raw_data, arguments_helper,                    *)
(* repository_analyzer) and the Aggregator                                *)
(* (calculate_github_personal_performance).                               *)
(*                                                                         *)
(* Conventions.  Python's None is the string "<None>" where the value is  *)
(* otherwise a string, and the empty tuple <<>> where it is otherwise an  *)
(* integer (an integer n is then <<n>>).  A calendar date is its          *)
(* proleptic Gregorian ordinal (datetime.date.toordinal), a datetime is   *)
(* [ord, secs] with secs the seconds since midnight.  A Python dict is    *)
(* [keys, val]: the keys in insertion order and the mapping.  A file name *)
(* is the sequence of its '_'-separated parts, the last part being the    *)
(* sequence of its '.'-separated parts; the digits of a strftime timestamp *)
(* are a number (fixed width, so string order is numeric order).          *)
(***************************************************************************)
EXTENDS Integers, Sequences, FiniteSets, TLC

VARIABLES
    dir,                \* results directory: file name -> content
    apc,                \* Aggregator: position in calculate_github_personal_performance
    workflow_files,     \* Aggregator: glob result (a set: glob's order is arbitrary)
    latest_file,        \* Aggregator: the file chosen by max(...)
    data,               \* Aggregator: parsed rows
    idx,                \* Aggregator: number of rows folded so far
    author_week_stats,  \* Aggregator: author -> date_range -> counters
    results,            \* Aggregator: emitted PerformanceRecords
    aret,               \* Aggregator: return value
    prev_run,           \* Aggregator: file and return value of the run before
    out,                \* lines printed so far (tags)
    fpc,                \* Fetcher: position in the call chain
    entry,              \* Fetcher: the function called from outside
    args,               \* Fetcher: the parsed command line
    env,                \* Fetcher: GITHUB_OWNER, GITHUB_REPO, GITHUB_TOKEN
    today,              \* Fetcher: datetime.now() in format_date_range
    date_filter,        \* Fetcher: the filter handed to the listing
    avail,              \* provider: the items of the paginated list
    pos,                \* listing: number of items taken from the list
    runs,               \* listing: the items normalized so far
    wr_ret,             \* return value of the listing function
    ar_ret,             \* return value of analyze_repository
    gd_ret,             \* return value of get_github_data
    fault,              \* provider: the call that raised, "none" if none did
    calls               \* provider: the calls made so far

aggVars == <<apc, workflow_files, latest_file, data, idx,
             author_week_stats, results, aret, prev_run>>

fetchVars == <<fpc, entry, args, env, today, date_filter, avail, pos, runs,
               wr_ret, ar_ret, gd_ret, fault, calls>>

vars == <<dir, out, aggVars, fetchVars>>

None == "<None>"

\* a function's return value: not returned yet, None, or a value
Running == [kind |-> "running"]
RetNone == [kind |-> "none"]
RetValue(v) == [kind |-> "value", value |-> v]

\* no file chosen yet
NoFile == <<>>

\* an integer option that was not given
NoInt == <<>>

\* the command line without any option
NoArgs == [date |-> None, start_date |-> None, end_date |-> None,
           days |-> NoInt, limit |-> NoInt]

-----------------------------------------------------------------------------
(* Bounds and input domains *)

MaxRows == 2

Authors == {"alice", "bob"}
Conclusions == {"success", "failure", "cancelled"}
AttemptValues == {1, 3}

\* 2024-03-03 (a Sunday, its week begins in February) and 2024-03-04 (the
\* Monday after it)
RowDays == {738948, 738949}
\* 00:00:00 and 23:59:59
RowSecs == {0, 86399}

\* a row of the raw CSV as csv.DictReader returns it; run_attempt is the
\* number int() reads, created_at the datetime strptime reads
Rows == [author : Authors, workflow_name : {"CI"}, pr_name : {"Fix build"},
         conclusion : Conclusions, head_branch : {"feature"},
         base_branch : {"main"}, run_attempt : AttemptValues,
         created_at : [ord : RowDays, secs : RowSecs]]

SeqsUpTo(S, n) == UNION {[1..k -> S] : k \in 0..n}

-----------------------------------------------------------------------------
(* Calendar: datetime.weekday, timedelta arithmetic, strftime *)

\* a week counted from Sunday = 0, as strftime('%w') counts it
WeekdayFromSunday(ord) == ord % 7

\* date.weekday(): Monday = 0 .. Sunday = 6
Weekday(ord) == (ord + 6) % 7

\* days in the months of 2024
MonthLen == <<31, 29, 31, 30, 31, 30, 31, 31, 30, 31, 30, 31>>

RECURSIVE MonthDay(_, _)
\* n = days since the first of month m (0-based) -> <<month, day>>
MonthDay(n, m) ==
    IF n < MonthLen[m] THEN <<m, n + 1>> ELSE MonthDay(n - MonthLen[m], m + 1)

\* <<year, month, day>> of an ordinal of the year 2024 (738886 = 2024-01-01)
YearMonthDay(ord) ==
    LET md == MonthDay(ord - 738886, 1) IN <<2024, md[1], md[2]>>

Pad2(n) == IF n < 10 THEN "0" \o ToString(n) ELSE ToString(n)

\* strftime('%Y-%m-%d')
FormatDate(dt) ==
    LET ymd == YearMonthDay(dt.ord)
    IN  ToString(ymd[1]) \o "-" \o Pad2(ymd[2]) \o "-" \o Pad2(ymd[3])

\* dt +/- timedelta(days = n)
PlusDays(dt, n) == [ord |-> dt.ord + n, secs |-> dt.secs]

-----------------------------------------------------------------------------
(* Python dict / defaultdict *)

EmptyDict == [keys |-> <<>>, val |-> <<>>]

Has(d, k) == k \in DOMAIN d.val

\* defaultdict.__getitem__: a missing key is inserted with the default
Touch(d, k, dflt) ==
    IF Has(d, k) THEN d
    ELSE [keys |-> Append(d.keys, k), val |-> (k :> dflt) @@ d.val]

Put(d, k, v) ==
    IF Has(d, k) THEN [keys |-> d.keys, val |-> [d.val EXCEPT ![k] = v]]
    ELSE [keys |-> Append(d.keys, k), val |-> (k :> v) @@ d.val]

ZeroCounts == [success |-> 0, failure |-> 0]

-----------------------------------------------------------------------------
(* Files of the results directory *)

\* f"github_workflow_data_{timestamp}.csv", timestamp = strftime("%Y%m%d_%H%M%S")
RawName(stamp) ==
    << <<"github">>, <<"workflow">>, <<"data">>, <<stamp[1]>>, <<stamp[2], "csv">> >>

\* the summary written under the raw files' name pattern
SummaryNameAsRaw(stamp) == RawName(stamp)

\* f"github_performance_by_author_{timestamp}.csv"
SummaryName(stamp) ==
    << <<"github">>, <<"performance">>, <<"by">>, <<"author">>,
       <<stamp[1]>>, <<stamp[2], "csv">> >>

\* a pattern 'github_*.csv', which also matches the summary files
MatchesAnyGithubCsv(name) ==
    /\ Len(name) >= 2
    /\ name[1] = <<"github">>
    /\ Len(name[Len(name)]) >= 2
    /\ name[Len(name)][Len(name[Len(name)])] = "csv"

\* glob 'github_workflow_data_*.csv'
MatchesRawPattern(name) ==
    /\ Len(name) >= 4
    /\ name[1] = <<"github">> /\ name[2] = <<"workflow">> /\ name[3] = <<"data">>
    /\ Len(name[Len(name)]) >= 2
    /\ name[Len(name)][Len(name[Len(name)])] = "csv"

Glob(d) == {n \in DOMAIN d : MatchesRawPattern(n)}

\* the key of max(): os.path.basename(x).split('_')[-1].split('.')[0]
SortKey(name) == name[Len(name)][1]

\* max(workflow_files, key = ...): the candidates; among equal keys max
\* returns the first of the list, and glob's order is the directory's
LatestCandidates(files) ==
    {f \in files : \A g \in files : SortKey(g) <= SortKey(f)}

-----------------------------------------------------------------------------
(* Aggregator: the fold and the ratio *)

\* lines 45-47
WeekStart(created_date) == PlusDays(created_date, 0 - Weekday(created_date.ord))

WeekEnd(created_date) == PlusDays(WeekStart(created_date), 6)

\* line 50
DateRange(created_date) ==
    FormatDate(WeekStart(created_date)) \o "..." \o FormatDate(WeekEnd(created_date))

\* the counter assigned ("=") instead of added to ("+=")
IncrAssign(stats, author, date_range, field, n) ==
    LET s1    == Touch(stats, author, EmptyDict)
        weeks == Touch(s1.val[author], date_range, ZeroCounts)
        cnt   == [weeks.val[date_range] EXCEPT ![field] = n]
    IN  Put(s1, author, Put(weeks, date_range, cnt))

\* author_week_stats[author][date_range][field] += n
Incr(stats, author, date_range, field, n) ==
    LET s1    == Touch(stats, author, EmptyDict)
        weeks == Touch(s1.val[author], date_range, ZeroCounts)
        cnt   == [weeks.val[date_range] EXCEPT ![field] = @ + n]
    IN  Put(s1, author, Put(weeks, date_range, cnt))

\* every conclusion but "success" counted as a failure
ConclusionIncrElseFailure(stats, row) ==
    IF row.conclusion = "success"
    THEN Incr(stats, row.author, DateRange(row.created_at), "success", 1)
    ELSE Incr(stats, row.author, DateRange(row.created_at), "failure", 1)

\* lines 53-56: the conclusion-driven increment
ConclusionIncr(stats, row) ==
    IF row.conclusion = "success"
    THEN Incr(stats, row.author, DateRange(row.created_at), "success", 1)
    ELSE IF row.conclusion = "failure"
    THEN Incr(stats, row.author, DateRange(row.created_at), "failure", 1)
    ELSE stats

\* the attempts counted instead of the retries
RetryIncrAttempts(stats, row) ==
    Incr(stats, row.author, DateRange(row.created_at), "failure", row.run_attempt)

\* line 58: the retries
RetryIncr(stats, row) ==
    Incr(stats, row.author, DateRange(row.created_at), "failure", row.run_attempt - 1)

\* lines 43-58, one iteration
FoldRow(stats, row) == RetryIncr(ConclusionIncr(stats, row), row)

\* the ratio cut after two decimals instead of rounded
Round2Truncated(s, f) == (100 * s) \div f

\* round(s / f, 2) for f > 0, in hundredths: Python rounds the float to the
\* nearest hundredth, an exact tie to the even one (s / f is exact in
\* binary at every tie with f < 40)
Round2(s, f) ==
    LET q == (100 * s) \div f
        r == (100 * s) % f
    IN  IF 2 * r < f THEN q
        ELSE IF 2 * r > f THEN q + 1
        ELSE IF q % 2 = 0 THEN q ELSE q + 1

\* lines 65-78: build_ratio of one bucket; kind is "inf" (the string 'inf'),
\* "int" (the integer 0) or "float" (hundredths)
BuildRatio(stats) ==
    IF stats.failure = 0
    THEN IF stats.success > 0 THEN [kind |-> "inf", hundredths |-> 0]
                              ELSE [kind |-> "int", hundredths |-> 0]
    ELSE [kind |-> "float", hundredths |-> Round2(stats.success, stats.failure)]

\* only the weeks with a counter above zero
WeekRecordsNonEmpty(author, weeks) ==
    LET ks == SelectSeq(weeks.keys, LAMBDA w : weeks.val[w] # ZeroCounts)
    IN  [j \in 1..Len(ks) |->
            [author |-> author, date_range |-> ks[j],
             build_ratio |-> BuildRatio(weeks.val[ks[j]])]]

\* the records of one author's weeks, in the dict's order
WeekRecords(author, weeks) ==
    [j \in 1..Len(weeks.keys) |->
        [author |-> author, date_range |-> weeks.keys[j],
         build_ratio |-> BuildRatio(weeks.val[weeks.keys[j]])]]

RECURSIVE Flatten(_)
Flatten(ss) == IF ss = <<>> THEN <<>> ELSE Head(ss) \o Flatten(Tail(ss))

\* lines 61-79
CalcResults(stats) ==
    Flatten([j \in 1..Len(stats.keys) |->
                WeekRecords(stats.keys[j], stats.val[stats.keys[j]])])

-----------------------------------------------------------------------------
(* Aggregator: calculate_github_personal_performance, step by step *)

\* datetime.now() at the time the summary is written
SummaryStamps == {<<20240701, 90000>>, <<20240702, 0>>}

\* what is kept of an Aggregator run: none before the first run has ended
NoRun == [kind |-> "none"]
RunOf(file, ret) == [kind |-> "run", file |-> file, ret |-> ret]

\* lines 18-27
SelectLatest ==
    /\ apc = "start"
    /\ UNCHANGED <<fetchVars, prev_run>>
    /\ workflow_files' = Glob(dir)
    /\ IF Glob(dir) = {}
       THEN /\ out' = Append(out, <<"No GitHub workflow data files found in the results directory.">>)
            /\ aret' = RetNone
            /\ apc' = "done"
            /\ UNCHANGED latest_file
       ELSE /\ latest_file' \in LatestCandidates(Glob(dir))
            /\ out' = Append(out, <<"Using data from", latest_file'>>)
            /\ apc' = "read"
            /\ UNCHANGED aret
    /\ UNCHANGED <<dir, data, idx, author_week_stats, results>>

\* lines 30-41
ReadRows ==
    /\ apc = "read"
    /\ UNCHANGED <<fetchVars, prev_run>>
    /\ data' = dir[latest_file]
    /\ idx' = 0
    /\ author_week_stats' = EmptyDict
    /\ apc' = "fold"
    /\ UNCHANGED <<dir, workflow_files, latest_file, results, aret, out>>

\* lines 43-58, one row
FoldStep ==
    /\ apc = "fold"
    /\ UNCHANGED <<fetchVars, prev_run>>
    /\ idx < Len(data)
    /\ author_week_stats' = FoldRow(author_week_stats, data[idx + 1])
    /\ idx' = idx + 1
    /\ UNCHANGED <<dir, apc, workflow_files, latest_file, data, results, aret, out>>

\* lines 61-79
CalcRatios ==
    /\ apc = "fold"
    /\ UNCHANGED <<fetchVars, prev_run>>
    /\ idx = Len(data)
    /\ results' = CalcResults(author_week_stats)
    /\ apc' = "write"
    /\ UNCHANGED <<dir, workflow_files, latest_file, data, idx,
                   author_week_stats, aret, out>>

\* lines 81-96
WriteSummary ==
    /\ apc = "write"
    /\ UNCHANGED <<fetchVars, prev_run>>
    /\ \E now \in SummaryStamps :
          /\ dir' = (SummaryName(now) :> results) @@ dir
          /\ out' = Append(out, <<"Results saved to", SummaryName(now)>>)
    /\ aret' = RetValue(results)
    /\ apc' = "done"
    /\ UNCHANGED <<workflow_files, latest_file, data, idx, author_week_stats, results>>

-----------------------------------------------------------------------------
(* The Aggregator run over a results directory *)

\* the raw files a directory may hold: 20240101_000000, 20240101_130000,
\* 20240615_120000, 20240615_235959
RawStamps == {<<20240101, 0>>, <<20240101, 130000>>,
              <<20240615, 120000>>, <<20240615, 235959>>}

SmallRow == [author |-> "alice", workflow_name |-> "CI", pr_name |-> "Fix build",
             conclusion |-> "success", head_branch |-> "feature",
             base_branch |-> "main", run_attempt |-> 1,
             created_at |-> [ord |-> 738949, secs |-> 0]]

\* the greatest number of rows of one conclusion in a long file
MaxCount == 8

\* row i of a long file: alice, first attempt, on Tuesday 2024-01-02,
\* Wednesday or Thursday of the same week, at noon
LongRow(i, conclusion) ==
    [SmallRow EXCEPT !.conclusion = conclusion,
                     !.created_at = [ord |-> 738887 + (i % 3), secs |-> 43200]]

\* s rows that succeeded, then f rows that failed
LongRows(s, f) ==
    [i \in 1..(s + f) |-> LongRow(i, IF i <= s THEN "success" ELSE "failure")]

\* alice's week of 2024-01-01: a success, a failure, a success at the
\* second attempt
ScenarioRows ==
    << [SmallRow EXCEPT !.created_at = [ord |-> 738887, secs |-> 43200]],
       [SmallRow EXCEPT !.conclusion = "failure",
                        !.created_at = [ord |-> 738888, secs |-> 43200]],
       [SmallRow EXCEPT !.run_attempt = 2,
                        !.created_at = [ord |-> 738889, secs |-> 43200]] >>

\* one raw file with many rows of one author and one week
DirsLongFile ==
    {RawName(<<20240615, 120000>>) :> rows :
        rows \in {LongRows(s, f) : s \in 0..MaxCount, f \in 0..MaxCount}
                 \cup {ScenarioRows}}

\* a summary an earlier run left behind
OldSummary == SummaryName(<<20240616, 0>>) :> <<>>

\* one raw file with any rows
DirsOneFile ==
    {RawName(<<20240615, 120000>>) :> rows : rows \in SeqsUpTo(Rows, MaxRows)}

\* any set of raw files, each with at most one row, with or without a
\* summary file beside them
DirsManyFiles ==
    UNION {UNION {{d, d @@ OldSummary} :
                    d \in [{RawName(s) : s \in ss} -> {<<>>, <<SmallRow>>}]} :
           ss \in SUBSET RawStamps}

\* the Fetcher is not running
FetcherIdle ==
    /\ fpc = "idle"
    /\ entry = "none"
    /\ args = NoArgs
    /\ env = [owner |-> None, repo |-> None, token |-> None]
    /\ today = [ord |-> 738949, secs |-> 0]
    /\ date_filter = None
    /\ avail = <<>>
    /\ pos = 0
    /\ runs = <<>>
    /\ wr_ret = Running
    /\ ar_ret = Running
    /\ gd_ret = Running
    /\ fault = "none"
    /\ calls = {}

InitAgg ==
    /\ dir \in DirsOneFile \cup DirsManyFiles \cup DirsLongFile
    /\ apc = "start"
    /\ workflow_files = {}
    /\ latest_file = NoFile
    /\ data = <<>>
    /\ idx = 0
    /\ author_week_stats = EmptyDict
    /\ results = <<>>
    /\ aret = Running
    /\ prev_run = NoRun
    /\ out = <<>>
    /\ FetcherIdle

NextAgg ==
    \/ SelectLatest
    \/ ReadRows
    \/ FoldStep
    \/ CalcRatios
    \/ WriteSummary

SpecAgg == InitAgg /\ [][NextAgg]_vars

-----------------------------------------------------------------------------
(* The Aggregator run again and again over the directory it leaves *)

\* the function is called once more, in a new process: its locals and
\* the output start afresh, the directory is as the last run left it
AggregatorAgain ==
    /\ apc = "done"
    /\ prev_run' = RunOf(latest_file, aret)
    /\ apc' = "start"
    /\ workflow_files' = {}
    /\ latest_file' = NoFile
    /\ data' = <<>>
    /\ idx' = 0
    /\ author_week_stats' = EmptyDict
    /\ results' = <<>>
    /\ aret' = Running
    /\ out' = <<>>
    /\ UNCHANGED <<dir, fetchVars>>

\* the greatest number of rows of the raw file of a directory that is
\* aggregated repeatedly
MaxRerunRows == 1

DirsRerun ==
    {RawName(<<20240615, 120000>>) :> rows : rows \in SeqsUpTo(Rows, MaxRerunRows)}
    \cup DirsManyFiles \cup DirsLongFile

InitAggRuns ==
    /\ dir \in DirsRerun
    /\ apc = "start"
    /\ workflow_files = {}
    /\ latest_file = NoFile
    /\ data = <<>>
    /\ idx = 0
    /\ author_week_stats = EmptyDict
    /\ results = <<>>
    /\ aret = Running
    /\ prev_run = NoRun
    /\ out = <<>>
    /\ FetcherIdle

NextAggRuns ==
    \/ SelectLatest
    \/ ReadRows
    \/ FoldStep
    \/ CalcRatios
    \/ WriteSummary
    \/ AggregatorAgain

SpecAggRuns == InitAggRuns /\ [][NextAggRuns]_vars

-----------------------------------------------------------------------------
(* Properties of the Aggregator *)

\* the counters of a bucket, zero when the bucket does not exist
Counts(stats, author, date_range) ==
    IF Has(stats, author) /\ Has(stats.val[author], date_range)
    THEN stats.val[author].val[date_range]
    ELSE ZeroCounts

\* the keys (author, date_range) of the buckets
Buckets(stats) ==
    UNION {{<<a, w>> : w \in DOMAIN stats.val[a].val} : a \in DOMAIN stats.val}

\* a fold step: the row that is being folded is data[idx + 1]
Folding == apc = "fold" /\ idx' = idx + 1

Ind(b) == IF b THEN 1 ELSE 0

\* C1: folding a row adds to the bucket keyed by the row's author and week:
\* 1 to success if the conclusion is "success", 1 to failure if it is
\* "failure", and run_attempt - 1 to failure whatever the conclusion.
C1_FoldIncrements ==
    [][Folding =>
        LET row    == data[idx + 1]
            before == Counts(author_week_stats, row.author, DateRange(row.created_at))
            after  == Counts(author_week_stats', row.author, DateRange(row.created_at))
        IN  /\ after.success = before.success + Ind(row.conclusion = "success")
            /\ after.failure = before.failure + Ind(row.conclusion = "failure")
                                              + (row.run_attempt - 1)]_vars

\* a successful third attempt was folded into an empty bucket: success 1, failure 2
C1_Witness ==
    /\ apc = "fold" /\ idx = 1
    /\ data[1].conclusion = "success" /\ data[1].run_attempt = 3
    /\ Counts(author_week_stats, data[1].author, DateRange(data[1].created_at))
         = [success |-> 1, failure |-> 2]

Abs(n) == IF n < 0 THEN 0 - n ELSE n

\* the ratio emitted for the counters c is the one the claim gives
RatioAsClaimed(ratio, c) ==
    IF c.failure = 0 /\ c.success > 0 THEN ratio.kind = "inf"
    ELSE IF c.failure = 0 /\ c.success = 0
    THEN ratio.kind # "inf" /\ ratio.hundredths = 0
    ELSE /\ ratio.kind = "float"
         \* the nearest hundredth to success / failure
         /\ 2 * Abs(100 * c.success - ratio.hundredths * c.failure) <= Abs(c.failure)
         /\ ratio.hundredths >= 0

Emitted == apc \in {"write", "done"} /\ workflow_files # {}

\* C2: once the rows are folded, every emitted build_ratio is "inf" when
\* failure = 0 < success, 0 when both are 0, otherwise success / failure
\* rounded to two decimals, and never negative.
C2_BuildRatio ==
    Emitted =>
        \A j \in 1..Len(results) :
            RatioAsClaimed(results[j].build_ratio,
                           Counts(author_week_stats, results[j].author,
                                  results[j].date_range))

\* 3 successes and 2 failures were emitted as 1.5
C2_Witness ==
    /\ Emitted
    /\ \E j \in 1..Len(results) :
          /\ Counts(author_week_stats, results[j].author, results[j].date_range)
               = [success |-> 3, failure |-> 2]
          /\ results[j].build_ratio = [kind |-> "float", hundredths |-> 150]

\* the <<date, time>> in a raw file's name
Stamp(name) == <<name[Len(name) - 1][1], name[Len(name)][1]>>

\* chronological order of two stamps
StampLeq(s, t) == s[1] < t[1] \/ (s[1] = t[1] /\ s[2] <= t[2])

\* C3: the Aggregator reads the raw file whose embedded timestamp, date and
\* time together, is the greatest.
C3_ReadsLatestFile ==
    (workflow_files # {} /\ apc # "start") =>
        \A g \in Glob(dir) : StampLeq(Stamp(g), Stamp(latest_file))

\* the Monday on or before a date, counted from Monday 2024-01-01
MondayOnOrBefore(ord) ==
    CHOOSE w \in (ord - 6)..ord : (w - 738886) % 7 = 0

\* "week_start...week_end" for a week that starts on the date w
WeekLabel(w) ==
    FormatDate([ord |-> w, secs |-> 0]) \o "..." \o FormatDate([ord |-> w + 6, secs |-> 0])

\* C4: every folded row is counted in the bucket of the week that starts on
\* the Monday on or before its date and ends six days later, whatever its
\* time of day.
C4_WeekBucket ==
    \A i \in 1..idx :
        LET row == data[i]
            w   == MondayOnOrBefore(row.created_at.ord)
        IN  /\ w <= row.created_at.ord /\ row.created_at.ord <= w + 6
            /\ Has(author_week_stats, row.author)
            /\ DOMAIN author_week_stats.val[row.author].val
                 \subseteq {WeekLabel(MondayOnOrBefore(data[k].created_at.ord)) :
                              k \in 1..idx}
            /\ Has(author_week_stats.val[row.author], WeekLabel(w))

\* a row of Sunday 2024-03-03, 23:59:59, and a row of Monday 2024-03-04,
\* 00:00:00, of one author were folded into two weeks
C4_Witness ==
    /\ idx = 2
    /\ data[1].created_at = [ord |-> 738948, secs |-> 86399]
    /\ data[2].created_at = [ord |-> 738949, secs |-> 0]
    /\ data[1].author = data[2].author
    /\ author_week_stats.val[data[1].author].keys
         = <<"2024-02-26...2024-03-03", "2024-03-04...2024-03-10">>

\* the increments of a fold step: to success, to failure by the conclusion,
\* to failure by the retries
SuccessIncr ==
    LET row == data[idx + 1]
    IN  Counts(author_week_stats', row.author, DateRange(row.created_at)).success
          - Counts(author_week_stats, row.author, DateRange(row.created_at)).success

FailureIncr ==
    LET row == data[idx + 1]
    IN  Counts(author_week_stats', row.author, DateRange(row.created_at)).failure
          - Counts(author_week_stats, row.author, DateRange(row.created_at)).failure

\* C5 as stated: for every row exactly one of the two conclusion-driven
\* increments fires, and failure also receives run_attempt - 1 >= 0.
C5_ExactlyOneIncrement ==
    [][Folding =>
        LET retries == data[idx + 1].run_attempt - 1
        IN  /\ retries >= 0
            /\ \/ SuccessIncr = 1 /\ FailureIncr - retries = 0
               \/ SuccessIncr = 0 /\ FailureIncr - retries = 1]_vars

\* C5 amended: at most one of the two conclusion-driven increments fires:
\* success += 1 exactly when the conclusion is "success", failure += 1
\* exactly when it is "failure", neither for any other conclusion; failure
\* also receives run_attempt - 1 >= 0.
C5_AtMostOneIncrement ==
    [][Folding =>
        LET row     == data[idx + 1]
            retries == row.run_attempt - 1
        IN  /\ retries >= 0
            /\ <<SuccessIncr, FailureIncr - retries>> \in {<<1, 0>>, <<0, 1>>, <<0, 0>>}
            /\ SuccessIncr = 1 <=> row.conclusion = "success"
            /\ FailureIncr - retries = 1 <=> row.conclusion = "failure"]_vars

\* a cancelled third attempt was folded: no conclusion-driven increment,
\* two retries
C5_Witness ==
    /\ apc = "fold" /\ idx = 1
    /\ data[1].conclusion = "cancelled" /\ data[1].run_attempt = 3
    /\ Counts(author_week_stats, data[1].author, DateRange(data[1].created_at))
         = [success |-> 0, failure |-> 2]

RECURSIVE SumOver(_, _)
\* the sum of f[x] over the set S
SumOver(f, S) ==
    IF S = {} THEN 0
    ELSE LET x == CHOOSE y \in S : TRUE IN f[x] + SumOver(f, S \ {x})

\* the buckets and what is emitted for them
C6_BucketsKept ==
    /\ Buckets(author_week_stats)
         = {<<data[i].author, DateRange(data[i].created_at)>> : i \in 1..idx}
    /\ Emitted =>
          /\ idx = Len(data)
          /\ \A b \in Buckets(author_week_stats) :
                Cardinality({j \in 1..Len(results) :
                    results[j].author = b[1] /\ results[j].date_range = b[2]}) = 1
          /\ Len(results) = Cardinality(Buckets(author_week_stats))
          /\ SumOver([b \in Buckets(author_week_stats) |->
                        Counts(author_week_stats, b[1], b[2]).success],
                     Buckets(author_week_stats))
               = Cardinality({i \in 1..Len(data) : data[i].conclusion = "success"})
          /\ SumOver([b \in Buckets(author_week_stats) |->
                        Counts(author_week_stats, b[1], b[2]).failure],
                     Buckets(author_week_stats))
               = Cardinality({i \in 1..Len(data) : data[i].conclusion = "failure"})
                 + SumOver([i \in 1..Len(data) |-> data[i].run_attempt - 1],
                           1..Len(data))

\* a step of the Aggregator removes no bucket, and a fold step changes the
\* counters of the row's bucket only
C6_OneBucketPerStep ==
    /\ Buckets(author_week_stats) \subseteq Buckets(author_week_stats')
    /\ Folding =>
          \A b \in Buckets(author_week_stats) :
              b # <<data[idx + 1].author, DateRange(data[idx + 1].created_at)>>
                 => Counts(author_week_stats', b[1], b[2])
                      = Counts(author_week_stats, b[1], b[2])

\* C6: folding a row changes the counters of the row's bucket only, no
\* bucket is removed, every bucket a row touched is emitted as exactly one
\* record, and the counters of the emitted buckets add up to the rows.
C6_EveryRowInOneBucket ==
    []C6_BucketsKept /\ [][C6_OneBucketPerStep]_vars

\* two rows were folded into two buckets, one of them with both counters 0,
\* and two records were emitted
C6_Witness ==
    /\ Emitted
    /\ Len(data) = 2
    /\ Len(results) = 2
    /\ \E b \in Buckets(author_week_stats) :
          Counts(author_week_stats, b[1], b[2]) = ZeroCounts

-----------------------------------------------------------------------------
(* Fetcher: the date filter (arguments_helper) *)

\* Python truth of a string or None
Truthy(x) == x # None /\ x # ""

\* "if days:" in place of "if days is not None:"
FormatDateRangeDaysTruthy(start_date, end_date, days, now) ==
    LET given  == days # NoInt /\ days # <<0>>
        start1 == IF given THEN FormatDate(PlusDays(now, 0 - days[1]))
                  ELSE start_date
        end1   == IF given /\ ~Truthy(end_date) THEN FormatDate(now) ELSE end_date
    IN  IF Truthy(start1) /\ Truthy(end1) THEN start1 \o ".." \o end1
        ELSE IF Truthy(start1) THEN ">=" \o start1
        ELSE IF Truthy(end1) THEN "<=" \o end1
        ELSE None

\* format_date_range, with now = datetime.now()
FormatDateRange(start_date, end_date, days, now) ==
    LET start1 == IF days # NoInt THEN FormatDate(PlusDays(now, 0 - days[1]))
                  ELSE start_date
        end1   == IF days # NoInt /\ ~Truthy(end_date) THEN FormatDate(now)
                  ELSE end_date
    IN  IF Truthy(start1) /\ Truthy(end1) THEN start1 \o ".." \o end1
        ELSE IF Truthy(start1) THEN ">=" \o start1
        ELSE IF Truthy(end1) THEN "<=" \o end1
        ELSE None

\* get_date_filter
GetDateFilter(a, now) ==
    IF Truthy(a.date) THEN a.date
    ELSE FormatDateRange(a.start_date, a.end_date, a.days, now)

-----------------------------------------------------------------------------
(* The provider's objects and their normalization (repository_analyzer) *)

\* the greatest number of items the provider's list holds
MaxRuns == 2

\* a finished first attempt of alice's pull request, and a run in progress
\* with no actor, no conclusion and no pull request, at its third attempt
RunA == [id |-> 1, actor |-> "alice", name |-> "CI", display_title |-> "Fix build",
         status |-> "completed", conclusion |-> "success", head_branch |-> "feature",
         pull_requests |-> <<[base |-> [ref |-> "main"]]>>,
         run_attempt |-> 1, run_number |-> 10,
         created_at |-> [ord |-> 738949, secs |-> 0]]

RunB == [id |-> 2, actor |-> None, name |-> "CI", display_title |-> "Nightly",
         status |-> "in_progress", conclusion |-> None, head_branch |-> "main",
         pull_requests |-> <<>>,
         run_attempt |-> 3, run_number |-> 11,
         created_at |-> [ord |-> 738948, secs |-> 86399]]

PullA == [number |-> 7, title |-> "Fix build", state |-> "open",
          created_at |-> [ord |-> 738949, secs |-> 0], user |-> "alice",
          html_url |-> "https://github.com/octo/demo/pull/7"]

\* a commit with a known author and a commit without; the message is the
\* sequence of its lines
CommitA == [sha |-> "a1", author |-> "alice", message |-> <<"Fix build", "", "details">>,
            date |-> [ord |-> 738949, secs |-> 0],
            html_url |-> "https://github.com/octo/demo/commit/a1"]

CommitB == [sha |-> "b2", author |-> None, message |-> <<"Merge">>,
            date |-> [ord |-> 738948, secs |-> 86399],
            html_url |-> "https://github.com/octo/demo/commit/b2"]

ContributorA == [login |-> "alice", contributions |-> 10,
                 html_url |-> "https://github.com/alice"]

\* the key of the list in the returned dict, by the function called
ListKey(fn) ==
    CASE fn = "get_pull_requests" -> "pull_requests"
      [] fn = "get_commits"       -> "commits"
      [] fn = "get_contributors"  -> "contributors"
      [] OTHER                    -> "runs"

ProviderItems(key) ==
    CASE key = "runs"          -> {RunA, RunB}
      [] key = "pull_requests" -> {PullA}
      [] key = "commits"       -> {CommitA, CommitB}
      [] key = "contributors"  -> {ContributorA}

\* get_workflow_runs, lines 138-153
NormalizeRun(run) ==
    [id |-> run.id,
     author |-> run.actor,
     workflow_name |-> run.name,
     pr_name |-> run.display_title,
     status |-> run.status,
     conclusion |-> run.conclusion,
     head_branch |-> run.head_branch,
     base_branch |-> IF run.pull_requests # <<>>
                     THEN run.pull_requests[1].base.ref ELSE None,
     pull_requests_count |-> Len(run.pull_requests),
     run_attempt |-> run.run_attempt,
     run_number |-> run.run_number,
     created_at |-> run.created_at]

\* get_pull_requests, lines 175-182
NormalizePull(pr) ==
    [number |-> pr.number, title |-> pr.title, state |-> pr.state,
     created_at |-> pr.created_at, user |-> pr.user, url |-> pr.html_url]

\* get_commits, lines 200-206
NormalizeCommit(c) ==
    [sha |-> c.sha,
     author |-> IF c.author # None THEN c.author ELSE "Unknown",
     message |-> c.message[1],
     date |-> c.date, url |-> c.html_url]

\* get_contributors, lines 224-228
NormalizeContributor(c) ==
    [login |-> c.login, contributions |-> c.contributions, url |-> c.html_url]

Normalize(key, item) ==
    CASE key = "runs"          -> NormalizeRun(item)
      [] key = "pull_requests" -> NormalizePull(item)
      [] key = "commits"       -> NormalizeCommit(item)
      [] key = "contributors"  -> NormalizeContributor(item)

\* pulls[:100] and commits[:100]
PullsCap == 100
CommitsCap == 100

Min(a, b) == IF a < b THEN a ELSE b

\* the items the loop goes over: workflow_runs[:limit] if limit else
\* workflow_runs; pulls[:100]; commits[:100]; contributors
Capped(key, items, limit) ==
    CASE key = "runs" ->
            IF limit # NoInt /\ limit # <<0>>
            THEN SubSeq(items, 1, Min(limit[1], Len(items)))
            ELSE items
      [] key = "pull_requests" -> SubSeq(items, 1, Min(PullsCap, Len(items)))
      [] key = "commits"       -> SubSeq(items, 1, Min(CommitsCap, Len(items)))
      [] key = "contributors"  -> items

\* {"total_count": n, key: list}
Listing(key, n, list) == ("total_count" :> n) @@ (key :> list)

\* an except clause that returns what was normalized before the failure
ListingFailedPartial(key, sofar) == Listing(key, Len(sofar), sofar)

\* the except clause of a listing function; sofar is its local list
ListingFailed(key, sofar) == Listing(key, 0, <<>>)

\* an except clause of analyze_repository that returns an empty result
AnalyzeFailedEmpty ==
    RetValue([repository |-> None, url |-> None, last_updated |-> None,
              builds |-> Listing("runs", 0, <<>>)])

\* the except clause of analyze_repository, lines 92-94
AnalyzeFailed == RetNone

\* analyze_repository, lines 72-90, with the repository found
Analyzed(builds) ==
    RetValue([repository |-> "octo/demo", url |-> "https://github.com/octo/demo",
              last_updated |-> "2024-03-01", builds |-> builds])

\* "if not results['builds']['runs']" added to "if not results"
GithubDataNoneWhenEmpty(analyzed) ==
    IF analyzed.kind = "none" \/ analyzed.value.builds.runs = <<>> THEN RetNone
    ELSE RetValue([builds |-> analyzed.value.builds.runs,
                   repository |-> analyzed.value.repository,
                   url |-> analyzed.value.url,
                   total_count |-> analyzed.value.builds.total_count])

\* get_github_data, lines 28-42
GithubData(analyzed) ==
    IF analyzed.kind = "none" THEN RetNone
    ELSE RetValue([builds |-> analyzed.value.builds.runs,
                   repository |-> analyzed.value.repository,
                   url |-> analyzed.value.url,
                   total_count |-> analyzed.value.builds.total_count])

\* csv.writer writes None as the empty string
CsvCell(v) == IF v = None THEN "" ELSE v

\* generate_github_builds_raw_data, lines 35-38: the row of one run
CsvRow(run) ==
    [author |-> CsvCell(run.author), workflow_name |-> CsvCell(run.workflow_name),
     pr_name |-> CsvCell(run.pr_name), conclusion |-> CsvCell(run.conclusion),
     head_branch |-> CsvCell(run.head_branch),
     base_branch |-> CsvCell(run.base_branch),
     run_attempt |-> run.run_attempt, created_at |-> run.created_at]

CsvRows(builds) == [i \in 1..Len(builds) |-> CsvRow(builds[i])]

-----------------------------------------------------------------------------
(* Fetcher: generate_github_builds_raw_data and the functions it calls,    *)
(* and the listing functions called on their own                           *)

Fetcher == "generate_github_builds_raw_data"

\* datetime.now() at the time the raw file is written
FetchStamps == {<<20240304, 101500>>, <<20240305, 0>>}

\* generate_github_builds_raw_data, lines 9-10
ParseArguments ==
    /\ fpc = "args"
    /\ date_filter' = GetDateFilter(args, today)
    /\ fpc' = "config"
    /\ UNCHANGED <<dir, out, aggVars, entry, args, env, today, avail, pos, runs,
                   wr_ret, ar_ret, gd_ret, fault, calls>>

\* any([owner, repo_name, token]): one setting is enough
ConfigAny(e) == Truthy(e.owner) \/ Truthy(e.repo) \/ Truthy(e.token)

\* all([owner, repo_name, token])
ConfigComplete(e) == Truthy(e.owner) /\ Truthy(e.repo) /\ Truthy(e.token)

\* get_github_data, lines 20-26
CheckConfig ==
    /\ fpc = "config"
    /\ IF ConfigComplete(env)
       THEN /\ fpc' = "lookup"
            /\ UNCHANGED <<out, gd_ret>>
       ELSE /\ out' = Append(out, <<"Error: Missing required environment variables">>)
            /\ gd_ret' = RetNone
            /\ fpc' = "print"
    /\ UNCHANGED <<dir, aggVars, entry, args, env, today, date_filter, avail, pos,
                   runs, wr_ret, ar_ret, fault, calls>>

\* analyze_repository, lines 61-76 and 92-96, and on failure
\* get_github_data, lines 30-32
LookupRepo ==
    /\ fpc = "lookup"
    /\ calls' = calls \cup {"get_repo"}
    /\ \E outcome \in {"ok", "get_repo", "repo_attributes"} :
          IF outcome = "ok"
          THEN /\ fpc' = "list"
               /\ UNCHANGED <<out, ar_ret, gd_ret, fault>>
          ELSE /\ fault' = outcome
               /\ ar_ret' = AnalyzeFailed
               /\ gd_ret' = GithubData(AnalyzeFailed)
               /\ out' = out \o
                    << <<"Error analyzing repository">> >> \o
                    (IF GithubData(AnalyzeFailed).kind = "none"
                     THEN << <<"Error: Failed to analyze repository">> >> ELSE <<>>)
               /\ fpc' = "print"
    /\ UNCHANGED <<dir, aggVars, entry, args, env, today, date_filter, avail, pos,
                   runs, wr_ret>>

\* the except clause of the listing function that is running
ListingRaises(call) ==
    /\ fault' = call
    /\ wr_ret' = RetValue(ListingFailed(ListKey(entry), runs))
    /\ out' = Append(out, <<"Error getting", ListKey(entry)>>)
    /\ fpc' = "listed"

\* repo.get_workflow_runs(...), repo.get_pulls(state='all'),
\* repo.get_commits(), repo.get_contributors(), and the empty local list
ListCall ==
    /\ fpc = "list"
    /\ calls' = calls \cup {"list"}
    /\ \/ /\ \E items \in SeqsUpTo(ProviderItems(ListKey(entry)), MaxRuns) :
                avail' = items
          /\ runs' = <<>>
          /\ pos' = 0
          /\ fpc' = IF ListKey(entry) = "pull_requests" THEN "check_empty"
                    ELSE "iterate"
          /\ UNCHANGED <<out, wr_ret, fault>>
       \/ /\ ListingRaises("list")
          /\ UNCHANGED <<avail, runs, pos>>
    /\ UNCHANGED <<dir, aggVars, entry, args, env, today, date_filter, ar_ret, gd_ret>>

\* get_pull_requests, lines 170-172
CheckEmpty ==
    /\ fpc = "check_empty"
    /\ calls' = calls \cup {"totalCount"}
    /\ \/ /\ IF Len(avail) = 0
             THEN /\ out' = Append(out, <<"No pull requests found.">>)
                  /\ wr_ret' = RetValue(Listing("pull_requests", 0, <<>>))
                  /\ fpc' = "listed"
             ELSE /\ fpc' = "iterate"
                  /\ UNCHANGED <<out, wr_ret>>
          /\ UNCHANGED fault
       \/ ListingRaises("totalCount")
    /\ UNCHANGED <<dir, aggVars, entry, args, env, today, date_filter, avail, pos,
                   runs, ar_ret, gd_ret>>

\* one iteration of the loop of a listing function: the provider hands out
\* the next item and it is normalized and appended, or either step raises
TakeItem ==
    /\ fpc = "iterate"
    /\ pos < Len(Capped(ListKey(entry), avail, args.limit))
    /\ calls' = calls \cup {"iterate"}
    /\ \/ /\ runs' = Append(runs, Normalize(ListKey(entry), avail[pos + 1]))
          /\ pos' = pos + 1
          /\ UNCHANGED <<out, wr_ret, fault, fpc>>
       \/ /\ \E call \in {"iterate", "normalize"} : ListingRaises(call)
          /\ UNCHANGED <<runs, pos>>
    /\ UNCHANGED <<dir, aggVars, entry, args, env, today, date_filter, avail,
                   ar_ret, gd_ret>>

\* the return of a listing function after its loop: total_count is the
\* provider's totalCount, or len(contributor_list)
ReturnListing ==
    /\ fpc = "iterate"
    /\ pos = Len(Capped(ListKey(entry), avail, args.limit))
    /\ IF ListKey(entry) = "contributors"
       THEN /\ wr_ret' = RetValue(Listing("contributors", Len(runs), runs))
            /\ fpc' = "listed"
            /\ UNCHANGED <<out, fault, calls>>
       ELSE /\ calls' = calls \cup {"totalCount"}
            /\ \/ /\ wr_ret' = RetValue(Listing(ListKey(entry), Len(avail), runs))
                  /\ fpc' = "listed"
                  /\ UNCHANGED <<out, fault>>
               \/ ListingRaises("totalCount")
    /\ UNCHANGED <<dir, aggVars, entry, args, env, today, date_filter, avail, pos,
                   runs, ar_ret, gd_ret>>

\* analyze_repository, lines 79-90, and get_github_data, lines 28-42
ReturnData ==
    /\ fpc = "listed"
    /\ entry = Fetcher
    /\ ar_ret' = Analyzed(wr_ret.value)
    /\ gd_ret' = GithubData(Analyzed(wr_ret.value))
    /\ fpc' = "print"
    /\ UNCHANGED <<dir, out, aggVars, entry, args, env, today, date_filter, avail,
                   pos, runs, wr_ret, fault, calls>>

\* generate_github_builds_raw_data, line 14: result['builds'] of None is a
\* TypeError, which nothing catches
PrintBuilds ==
    /\ fpc = "print"
    /\ IF gd_ret.kind = "none"
       THEN /\ out' = Append(out, <<"TypeError: 'NoneType' object is not subscriptable">>)
            /\ fpc' = "crashed"
       ELSE /\ out' = Append(out, <<"builds", gd_ret.value.builds>>)
            /\ fpc' = "write"
    /\ UNCHANGED <<dir, aggVars, entry, args, env, today, date_filter, avail, pos,
                   runs, wr_ret, ar_ret, gd_ret, fault, calls>>

\* str(item) of a cell that holds None or text
StrItem(v) == IF v = None THEN "None" ELSE v

\* strftime('%Y-%m-%d %H:%M:%S'), the text created_at holds
FormatDateTime(dt) ==
    FormatDate(dt) \o " " \o Pad2(dt.secs \div 3600) \o ":"
        \o Pad2((dt.secs % 3600) \div 60) \o ":" \o Pad2(dt.secs % 60)

\* line 39: the line printed for the run at index i - 1
RowLine(i, run) ==
    ToString(i) \o ": " \o StrItem(run.author) \o "," \o StrItem(run.workflow_name)
        \o "," \o StrItem(run.pr_name) \o "," \o StrItem(run.conclusion)
        \o "," \o StrItem(run.head_branch) \o "," \o StrItem(run.base_branch)
        \o "," \o ToString(run.run_attempt) \o "," \o FormatDateTime(run.created_at)

\* lines 34-39: the lines printed while the rows are written
RowLines(builds) == [i \in 1..Len(builds) |-> <<RowLine(i, builds[i])>>]

\* generate_github_builds_raw_data, lines 16-41
WriteRawCsv ==
    /\ fpc = "write"
    /\ IF gd_ret.kind = "value" /\ "builds" \in DOMAIN gd_ret.value
       THEN \E now \in FetchStamps :
               /\ dir' = (RawName(now) :> CsvRows(gd_ret.value.builds)) @@ dir
               /\ out' = Append(out \o RowLines(gd_ret.value.builds),
                              <<"Data saved to", RawName(now)>>)
       ELSE UNCHANGED <<dir, out>>
    /\ fpc' = "done"
    /\ UNCHANGED <<aggVars, entry, args, env, today, date_filter, avail, pos,
                   runs, wr_ret, ar_ret, gd_ret, fault, calls>>

-----------------------------------------------------------------------------
(* A Fetcher run, or a call of one listing function *)

ArgDates == {None, "2024-01-24"}
StartDates == {None, "2024-01-01"}
EndDates == {None, "2024-01-31"}
DaysValues == {NoInt, <<0>>, <<7>>}
LimitValues == {NoInt} \cup {<<n>> : n \in 0..MaxRuns}

ArgsDomain == [date : ArgDates, start_date : StartDates, end_date : EndDates,
               days : DaysValues, limit : LimitValues]

\* each of the three variables set or missing
Envs == [owner : {None, "octo"}, repo : {None, "demo"}, token : {None, "t0ken"}]

\* 2024-01-31 09:30:00 and 2024-03-04 00:00:00
Todays == {[ord |-> 738916, secs |-> 34200], [ord |-> 738949, secs |-> 0]}

\* the Aggregator is not running
AggregatorIdle ==
    /\ apc = "idle"
    /\ workflow_files = {}
    /\ latest_file = NoFile
    /\ data = <<>>
    /\ idx = 0
    /\ author_week_stats = EmptyDict
    /\ results = <<>>
    /\ aret = Running
    /\ prev_run = NoRun

InitFetch ==
    /\ dir = <<>>
    /\ out = <<>>
    /\ AggregatorIdle
    /\ entry \in {Fetcher, "get_pull_requests", "get_commits", "get_contributors"}
    /\ IF entry = Fetcher
       THEN /\ fpc = "args"
            /\ args \in ArgsDomain
            /\ env \in Envs
            /\ today \in Todays
       ELSE /\ fpc = "list"
            /\ args = NoArgs
            /\ env = [owner |-> None, repo |-> None, token |-> None]
            /\ today = [ord |-> 738949, secs |-> 0]
    /\ date_filter = None
    /\ avail = <<>>
    /\ pos = 0
    /\ runs = <<>>
    /\ wr_ret = Running
    /\ ar_ret = Running
    /\ gd_ret = Running
    /\ fault = "none"
    /\ calls = {}

NextFetch ==
    \/ ParseArguments
    \/ CheckConfig
    \/ LookupRepo
    \/ ListCall
    \/ CheckEmpty
    \/ TakeItem
    \/ ReturnListing
    \/ ReturnData
    \/ PrintBuilds
    \/ WriteRawCsv

SpecFetch == InitFetch /\ [][NextFetch]_vars

-----------------------------------------------------------------------------
(* The Fetcher run again and again over the directory it leaves *)

\* the environment of a further run: complete, or without the token
EnvsRerun == {e \in Envs : e.owner # None /\ e.repo # None}

\* the script is started once more with the same command line, in a new
\* process: its locals and the output start afresh, the directory is as
\* the last run left it
FetcherAgain ==
    /\ entry = Fetcher
    /\ fpc \in {"done", "crashed"}
    /\ fpc' = "args"
    /\ env' \in EnvsRerun
    /\ date_filter' = None
    /\ avail' = <<>>
    /\ pos' = 0
    /\ runs' = <<>>
    /\ wr_ret' = Running
    /\ ar_ret' = Running
    /\ gd_ret' = Running
    /\ fault' = "none"
    /\ calls' = {}
    /\ out' = <<>>
    /\ UNCHANGED <<dir, aggVars, entry, args, today>>

InitFetchRuns ==
    /\ dir = <<>>
    /\ out = <<>>
    /\ AggregatorIdle
    /\ entry = Fetcher
    /\ fpc = "args"
    /\ args = NoArgs
    /\ env \in EnvsRerun
    /\ today = [ord |-> 738949, secs |-> 0]
    /\ date_filter = None
    /\ avail = <<>>
    /\ pos = 0
    /\ runs = <<>>
    /\ wr_ret = Running
    /\ ar_ret = Running
    /\ gd_ret = Running
    /\ fault = "none"
    /\ calls = {}

NextFetchRuns ==
    \/ ParseArguments
    \/ CheckConfig
    \/ LookupRepo
    \/ ListCall
    \/ TakeItem
    \/ ReturnListing
    \/ ReturnData
    \/ PrintBuilds
    \/ WriteRawCsv
    \/ FetcherAgain

SpecFetchRuns == InitFetchRuns /\ [][NextFetchRuns]_vars

-----------------------------------------------------------------------------
(* Properties of the Fetcher *)

\* the dates of the runs' todays and of the days before them, as text
DateText ==
    (738949 :> "2024-03-04") @@ (738942 :> "2024-02-26") @@
    (738916 :> "2024-01-31") @@ (738909 :> "2024-01-24")

\* the filter the claim gives for the arguments a on the day now
FilterAsClaimed(a, now) ==
    IF a.days # NoInt
    THEN DateText[now.ord - a.days[1]] \o ".." \o
         (IF a.end_date = None THEN DateText[now.ord] ELSE a.end_date)
    ELSE CASE a.start_date # None /\ a.end_date # None ->
                 a.start_date \o ".." \o a.end_date
           [] a.start_date # None /\ a.end_date = None -> ">=" \o a.start_date
           [] a.start_date = None /\ a.end_date # None -> "<=" \o a.end_date
           [] OTHER -> None

\* format_date_range was called: the Fetcher is past its arguments and
\* --date was not given
Formatted == entry = Fetcher /\ fpc # "args" /\ args.date = None

\* C7: format_date_range returns, with days given, "{today - days}..{end}"
\* where end is end_date or else today, whatever start_date is; without
\* days "{start}..{end}", ">={start}", "<={end}" or None by the dates given.
C7_FormatDateRange ==
    Formatted => date_filter = FilterAsClaimed(args, today)

\* days = 0 with a start date and no end date gave "today..today"
C7_Witness ==
    /\ Formatted
    /\ args.days = <<0>> /\ args.start_date = "2024-01-01" /\ args.end_date = None
    /\ today.ord = 738949
    /\ date_filter = "2024-03-04..2024-03-04"

ListingFaults == {"list", "iterate", "normalize", "totalCount"}

LookupFaults == {"get_repo", "repo_attributes"}

\* {"total_count": 0, <key>: []} of the function called
EmptyListing ==
    CASE ListKey(entry) = "runs"          -> [total_count |-> 0, runs |-> <<>>]
      [] ListKey(entry) = "pull_requests" -> [total_count |-> 0, pull_requests |-> <<>>]
      [] ListKey(entry) = "commits"       -> [total_count |-> 0, commits |-> <<>>]
      [] ListKey(entry) = "contributors"  -> [total_count |-> 0, contributors |-> <<>>]

\* C8: when the provider raises during a listing (at the list call, while
\* iterating, while normalizing an item, at totalCount), the listing
\* function returns {total_count: 0, <key>: []}, whatever it had normalized.
C8_ListingSentinel ==
    fault \in ListingFaults =>
        /\ wr_ret.kind = "value"
        /\ wr_ret.value = EmptyListing
        /\ fpc # "crashed"

\* get_workflow_runs had normalized a run when the next one failed, and
\* returned the empty result
C8_Witness ==
    /\ entry = Fetcher
    /\ fault = "normalize"
    /\ runs # <<>>
    /\ wr_ret = RetValue([total_count |-> 0, runs |-> <<>>])

\* what get_github_data returns for a repository without runs
EmptyRepositoryData ==
    RetValue([builds |-> <<>>, repository |-> "octo/demo",
              url |-> "https://github.com/octo/demo", total_count |-> 0])

Returned(ret) == ret.kind # "running"

\* C9 as stated: after a provider failure in any sub-call of a Fetcher run,
\* the repository lookup included, get_github_data returns the empty result.
C9_AnyFailureIsEmptyResult ==
    (entry = Fetcher /\ fault # "none" /\ Returned(gd_ret)) =>
        gd_ret = EmptyRepositoryData

\* C9 amended: after a provider failure during the listing of the runs
\* get_github_data returns what it returns for a repository without runs;
\* after a failure of the repository lookup it returns None.
C9_ListingFailureIsEmptyResult ==
    (entry = Fetcher /\ Returned(gd_ret)) =>
        /\ fault \in ListingFaults => gd_ret = EmptyRepositoryData
        /\ fault \in LookupFaults => gd_ret = RetNone

\* the Fetcher received the empty result after the iteration had failed
C9_Witness ==
    /\ entry = Fetcher
    /\ fault = "iterate"
    /\ fpc = "print"
    /\ gd_ret = EmptyRepositoryData

\* C10: when the repository lookup raises, analyze_repository returns None
\* and get_github_data returns None.
C10_LookupFailureIsNone ==
    fault \in LookupFaults =>
        /\ ar_ret = RetNone
        /\ gd_ret = RetNone
        /\ fpc \in {"print", "crashed"}

\* get_repo raised and both functions returned None
C10_Witness ==
    /\ fault = "get_repo"
    /\ ar_ret = RetNone
    /\ gd_ret = RetNone

\* get_workflow_runs has returned without a failure
ListedRuns == entry = Fetcher /\ fault = "none" /\ wr_ret.kind = "value"

\* C11: with the limit set to n, n = 0 included, get_workflow_runs processes
\* the first min(n, available) runs; without a limit it processes every run.
C11_LimitCapsRuns ==
    ListedRuns =>
        /\ Len(wr_ret.value.runs)
             = IF args.limit # NoInt THEN Min(args.limit[1], Len(avail))
               ELSE Len(avail)
        /\ \A i \in 1..Len(wr_ret.value.runs) :
              wr_ret.value.runs[i] = NormalizeRun(avail[i])

\* the files of a directory that carry a raw file's name
RawFilesIn(d) == {n \in DOMAIN d : n = RawName(Stamp(n))}

\* the Aggregator leaves its first step with no raw file in the directory
C12_NoInputStep ==
    (apc = "start" /\ apc' # "start" /\ RawFilesIn(dir) = {}) =>
        /\ out' = Append(out, <<"No GitHub workflow data files found in the results directory.">>)
        /\ aret' = RetNone
        /\ apc' = "done"

\* C12: with no raw file in the results directory the Aggregator reports
\* it, returns without a result, and no step of the run changes the set of
\* files of the directory or their contents (no summary file is created).
C12_NoInputNoOutput ==
    [][C12_NoInputStep /\ (RawFilesIn(dir) = {} => dir' = dir)]_vars

C12_Witness ==
    /\ apc = "done" /\ aret = RetNone /\ workflow_files = {}
    /\ RawFilesIn(dir) = {} /\ DOMAIN dir # {}
    /\ out = << <<"No GitHub workflow data files found in the results directory.">> >>

\* a Fetcher run whose configuration lacks the owner, the repository or
\* the token, once get_github_data has been entered and has checked it
ConfigMissing == \E k \in {"owner", "repo", "token"} : env[k] = None
MisconfiguredRun == entry = Fetcher /\ ConfigMissing /\ fpc \notin {"args", "config"}

C13_Aborted ==
    MisconfiguredRun =>
        /\ Len(out) >= 1
        /\ out[1] = <<"Error: Missing required environment variables">>
        /\ calls = {}
        /\ gd_ret = RetNone
        /\ fpc \in {"print", "crashed"}

\* C13: with the owner, the repository or the token missing, a Fetcher run
\* reports the configuration error, makes no provider call, ends without
\* reaching the write, and no step of it changes the results directory.
C13_MissingConfigAborts ==
    /\ []C13_Aborted
    /\ [][(entry = Fetcher /\ ConfigMissing) => dir' = dir]_vars

C13_Witness ==
    /\ MisconfiguredRun /\ fpc = "crashed" /\ calls = {}
    /\ env.owner # None /\ env.repo # None /\ env.token = None
    /\ RawFilesIn(dir) = {}

\* the set of (author, date_range, build_ratio) records of a return value
RecordSet(ret) ==
    IF ret.kind = "value" THEN {ret.value[i] : i \in 1..Len(ret.value)} ELSE {}

\* a run that has ended after an earlier run over the same directory
Rerun == apc = "done" /\ prev_run.kind = "run"

\* the later run selected the file the earlier one selected, a raw file,
\* and returns the same records
C14_SameSelectionSameRecords ==
    /\ latest_file # NoFile =>
          /\ latest_file \in RawFilesIn(dir)
          /\ latest_file[2] = <<"workflow">>
    /\ Rerun =>
          /\ latest_file = prev_run.file
          /\ aret.kind = prev_run.ret.kind
          /\ RecordSet(aret) = RecordSet(prev_run.ret)

\* a step of a run changes the directory by one file at most, a file named
\* github_performance_by_author_<stamp>.csv that holds the run's records;
\* the raw files, their names and their rows, stay as they were
C14_OnlySummaryWritten ==
    dir' # dir =>
        /\ apc' = "done"
        /\ \E n \in DOMAIN dir' :
              /\ n[2] = <<"performance">>
              /\ \E now \in SummaryStamps : n = SummaryName(now)
              /\ dir'[n] = aret'.value
              /\ DOMAIN dir' = DOMAIN dir \cup {n}
              /\ \A f \in DOMAIN dir \ {n} : dir'[f] = dir[f]
        /\ RawFilesIn(dir') = RawFilesIn(dir)

\* C14: Aggregator runs in a row over the same directory select the same
\* raw file and return the same set of records; they differ in the stamp
\* of the summary file's name only, and a summary file is never selected.
C14_RerunsAgree ==
    /\ []C14_SameSelectionSameRecords
    /\ [][C14_OnlySummaryWritten]_vars

\* a second run has ended: raw files with rows beside the summaries of two
\* runs under different stamps, the same file selected, records returned
C14_Witness ==
    /\ Rerun
    /\ latest_file = prev_run.file
    /\ latest_file # NoFile
    /\ RecordSet(aret) # {}
    /\ \A now \in SummaryStamps :
          SummaryName(now) \in DOMAIN dir /\ dir[SummaryName(now)] = aret.value
    /\ Cardinality(RawFilesIn(dir)) >= 2

\* the step of a Fetcher run that writes its output
WritingStep == entry = Fetcher /\ fpc = "write" /\ fpc' = "done"

\* C15: in any sequence of Fetcher runs a run that writes output creates
\* one new raw file and leaves every raw file written before as it was,
\* name and rows; no other step of a run touches the directory.
C15_RawFilesOnlyAdded ==
    [][/\ WritingStep =>
            /\ \E n \in DOMAIN dir' \ DOMAIN dir :
                  /\ n = RawName(Stamp(n))
                  /\ DOMAIN dir' = DOMAIN dir \cup {n}
            /\ \A f \in DOMAIN dir : dir'[f] = dir[f]
            /\ Cardinality(RawFilesIn(dir')) = Cardinality(RawFilesIn(dir)) + 1
       /\ ~WritingStep => dir' = dir]_vars

\* the loop of lines 43-58 over a list of rows, from an empty mapping
RECURSIVE FoldRows(_, _)
FoldRows(stats, rows) ==
    IF rows = <<>> THEN stats ELSE FoldRows(FoldRow(stats, Head(rows)), Tail(rows))

\* the mapping (author, week range) -> counters, without the order of keys
CountersOf(stats) ==
    [b \in Buckets(stats) |-> Counts(stats, b[1], b[2])]

RecordsOf(rs) == {rs[i] : i \in 1..Len(rs)}

\* the orders a file's rows are tried in: every permutation of a file of
\* at most MaxRows + 1 rows; of a longer file every exchange of two rows
\* and the reversal
Reorderings(rows) ==
    IF Len(rows) <= MaxRows + 1
    THEN {[i \in 1..Len(rows) |-> rows[p[i]]] : p \in Permutations(1..Len(rows))}
    ELSE {[rows EXCEPT ![i] = rows[j], ![j] = rows[i]] :
             i \in 1..Len(rows), j \in 1..Len(rows)}
         \cup {[i \in 1..Len(rows) |-> rows[Len(rows) + 1 - i]]}

\* the Aggregator has folded every row of its file and computed the records
Folded == apc = "write" /\ idx = Len(data)

\* C16: the fold does not depend on the order of the rows: the rows of the
\* file in any other order give the mapping (author, week range) ->
\* (success, failure) the run has built and the set of records it emits.
C16_OrderIndependent ==
    Folded =>
        \A rows \in Reorderings(data) :
            /\ CountersOf(FoldRows(EmptyDict, rows)) = CountersOf(author_week_stats)
            /\ RecordsOf(CalcResults(FoldRows(EmptyDict, rows))) = RecordsOf(results)

\* rows of two buckets were folded, and in another order the same records
\* come out in a different sequence
C16_Witness ==
    /\ Folded
    /\ Cardinality(Buckets(author_week_stats)) >= 2
    /\ \E rows \in Reorderings(data) :
          /\ CalcResults(FoldRows(EmptyDict, rows)) # results
          /\ RecordsOf(CalcResults(FoldRows(EmptyDict, rows))) = RecordsOf(results)

====
